---- MODULE Spec2Model ----
(***************************************************************************)
(* The SSH "session" channel handler of diego-ssh                          *)
(* (handlers/session_channel_handler.go): one session, its request         *)
(* handlers run serially by the dispatcher, the waiter goroutine started   *)
(* by executeShell, the I/O pumps counted in the wait group, the keepalive *)
(* goroutine, and the child process.                                       *)
(*                                                                         *)
(* Strings that the code formats or inspects (environment names, values    *)
(* and "k=v" entries) are sequences of tokens, so that fmt.Sprintf and the *)
(* reading of an entry's key are computed rather than assumed.             *)
(***************************************************************************)
EXTENDS Integers, Sequences, FiniteSets

VARIABLES
    env,              \* sess.env: map from name to value
    allocPty,         \* sess.allocPty
    ptyRequest,       \* sess.ptyRequest (Term, Columns, Rows)
    command,          \* sess.command (*exec.Cmd or nil)
    ptyMaster,        \* sess.ptyMaster: "nil" or "open"
    complete,         \* sess.complete
    keepaliveStopCh,  \* sess.keepaliveStopCh: "nil", "open" or "closed"
    wg,               \* sess.wg: number of pumps not yet Done
    mutex,            \* the embedded sync.Mutex: "free" or the task holding it
    pcD,              \* position of the dispatcher goroutine
    pcW,              \* position of the waiter goroutine
    pcK,              \* position of the keepalive goroutine
    child,            \* the child process: "none", "running", "exited"
    dErr,             \* err local of the request handler being run
    wErr,             \* err local of the waiter goroutine
    events,           \* what the session did to its collaborators, in order
    signals,          \* runner.Signal calls, in order
    winsize,          \* window size last set on the PTY by ioctl
    kaSends,          \* requests sent by the keepalive goroutine, in order
    last,             \* the request last taken by the dispatcher, its reply
                      \* and the ioctl issued for it
    cfg,              \* a call of NewSSHProxyConfig: its argument, the files,
                      \* its position, its locals and what it returned
    other,            \* another session of the same handler: whether it
                      \* has been created, and its command
    modes             \* a call of setTerminalAttributes: the modelist, the
                      \* reader's offset, what each iteration did, and
                      \* where the call is

vars == <<env, allocPty, ptyRequest, command, ptyMaster, complete,
          keepaliveStopCh, wg, mutex, pcD, pcW, pcK, child, dErr, wErr,
          events, signals, winsize, kaSends, last, cfg, other, modes>>

----------------------------------------------------------------------------
(* Bounds of the model *)

\* exec requests with an scp command taken by one session
MaxCopies == 1
\* signal requests that reach runner.Signal
MaxSignals == 1
\* keepalive ticks
MaxTicks == 2
\* members of the JSON object in a configuration file
MaxMembers == 2

----------------------------------------------------------------------------
(* Strings *)

EQ == "="

HOME == <<"HOME">>
USER == <<"USER">>
TERM == <<"TERM">>
FOO  == <<"FOO">>
PATH == <<"PATH">>
LANG == <<"LANG">>
\* a name the peer may send: the bytes HOME=x
HOMEx == <<"HOME", EQ, "x">>

\* os.Getenv("HOME"), os.Getenv("USER") of the daemon
DaemonHome == <<"/home/vcap">>
DaemonUser == <<"vcap">>

PathEntry == PATH \o <<EQ, "/bin:/usr/bin">>
LangEntry == LANG \o <<EQ, "en_US.UTF8">>

\* fmt.Sprintf("%s=%s", k, v)
Sprintf(k, v) == k \o <<EQ>> \o v

\* the orders in which a range over a Go map may visit the keys
KeyOrders(S) ==
    { f \in [1..Cardinality(S) -> S] :
        \A i, j \in 1..Cardinality(S) : i # j => f[i] # f[j] }

----------------------------------------------------------------------------
(* Values *)

NoCmd == [nil |-> TRUE, args |-> <<>>, Env |-> <<>>]

NilErr == [kind |-> "nil", code |-> 0, sig |-> 0, core |-> FALSE]
\* an error that is not an *exec.ExitError
OtherErr == [kind |-> "other", code |-> 0, sig |-> 0, core |-> FALSE]
\* an *exec.ExitError whose Sys() is not a syscall.WaitStatus
NoSysErr == [kind |-> "nosys", code |-> 0, sig |-> 0, core |-> FALSE]
\* an *exec.ExitError of a child that exited with a code
ExitedErr(c) == [kind |-> "exited", code |-> c, sig |-> 0, core |-> FALSE]
\* an *exec.ExitError of a child killed by a signal
SignaledErr(s, cd) == [kind |-> "signaled", code |-> 0, sig |-> s, core |-> cd]

NoRequest == [type |-> "none", want |-> FALSE, ok |-> FALSE, reply |-> "none",
              ioctl |-> "none"]

ZeroPtyRequest == [Term |-> <<>>, Columns |-> 0, Rows |-> 0]

NoWinsize == [Width |-> 0, Height |-> 0, set |-> FALSE]

\* handler.defaultEnv
DefaultEnv == [k \in {} |-> <<>>]

\* setTerminalAttributes has not been called
NoModesCall == [modelist |-> <<>>, offset |-> 0, did |-> <<>>, pc |-> "none"]

\* the handler has built no second session
NoSession == [created |-> FALSE, command |-> NoCmd]

NoMsg == [type |-> "none", status |-> 0, signal |-> "", core |-> FALSE,
          want |-> FALSE]
ExitStatusMsg(n) == [type |-> "exit-status", status |-> n, signal |-> "",
                     core |-> FALSE, want |-> FALSE]
ExitSignalMsg(name, cd) == [type |-> "exit-signal", status |-> 0,
                            signal |-> name, core |-> cd, want |-> FALSE]
KeepaliveMsg == [type |-> "keepalive@cloudfoundry.org", status |-> 0,
                 signal |-> "", core |-> FALSE, want |-> TRUE]

\* one entry of events: e is what was done ("reply", "start", "copy",
\* "send", "waiter", "complete", "close", "ptyclose", "stopclose"), by the code
\* path that did it, msg the request sent, cmd the command string handed
\* over, open whether channel.Close had not been called before
Ev(e, by, msg, cmd) ==
    [e |-> e, by |-> by, msg |-> msg, cmd |-> cmd,
     open |-> \A i \in DOMAIN events : events[i].e # "close"]

Count(e) == Cardinality({i \in DOMAIN events : events[i].e = e})

\* uint32(x), that is x modulo 2^32, written over 16-bit halves
Uint32(x) == 65536 * ((x \div 65536) % 65536) + (x % 65536)
\* uint16(x)
Uint16(x) == x % 65536

\* the signal tables of the handlers package (signals.go)
SigNames == {"ABRT", "ALRM", "FPE", "HUP", "ILL", "INT", "KILL", "PIPE",
             "QUIT", "SEGV", "TERM", "USR1", "USR2"}
SigNumber ==
    [n \in SigNames |->
        CASE n = "HUP" -> 1 [] n = "INT" -> 2 [] n = "QUIT" -> 3
          [] n = "ILL" -> 4 [] n = "ABRT" -> 6 [] n = "FPE" -> 8
          [] n = "KILL" -> 9 [] n = "USR1" -> 10 [] n = "SEGV" -> 11
          [] n = "USR2" -> 12 [] n = "PIPE" -> 13 [] n = "ALRM" -> 14
          [] n = "TERM" -> 15]
\* SyscallSignals[ssh.Signal(name)]: the zero signal for a name not in the map
SyscallSignals(name) == IF name \in SigNames THEN SigNumber[name] ELSE 0
\* string(SSHSignals[sig]): the empty string for a signal not in the map
SSHSignals(sig) ==
    IF \E n \in SigNames : SigNumber[n] = sig
    THEN CHOOSE n \in SigNames : SigNumber[n] = sig
    ELSE ""
\* a keepalive that kills the child
KeepaliveKills == SigNumber["KILL"]

\* syscall.SIGHUP
SIGHUP == SigNumber["HUP"]

----------------------------------------------------------------------------
(* The configuration file of ssh-proxy (cmd/ssh-proxy/config).  A file is  *)
(* a sequence of JSON tokens: braces and whole members; a member has a key,*)
(* the type of its value and the value as a token sequence.                *)

LBrace == [tok |-> "{", k |-> "", t |-> "", v |-> <<>>]
RBrace == [tok |-> "}", k |-> "", t |-> "", v |-> <<>>]
Member(k, t, v) == [tok |-> "member", k |-> k, t |-> t, v |-> v]

\* SSHProxyConfig{}: of the fields, Address and CommunicationTimeout
\* (a durationjson.Duration, counted here in milliseconds)
ZeroSSHProxyConfig == [Address |-> <<>>, CommunicationTimeout |-> 0]

\* time.ParseDuration on a quantity and a unit
DurationUnits == {"ms", "s"}
Digits == {"4", "5"}
DigitValue(d) == IF d = "4" THEN 4 ELSE 5
UnitMillis(u) == IF u = "s" THEN 1000 ELSE 1
ParseDuration(v) ==
    IF Len(v) = 2 /\ v[1] \in Digits /\ v[2] \in DurationUnits
    THEN [err |-> "nil", d |-> DigitValue(v[1]) * UnitMillis(v[2])]
    ELSE [err |-> "invalid duration", d |-> 0]

\* durationjson.Duration.UnmarshalJSON: the value must be a JSON string
\* that time.ParseDuration accepts
UnmarshalDuration(m) ==
    IF m.t # "string" THEN [err |-> "invalid duration", d |-> 0]
    ELSE ParseDuration(m.v)

\* the scanner of encoding/json: position of the "}" that ends the first
\* value of the file, 0 when the file does not begin with a complete object
RECURSIVE ObjectEnd(_, _)
ObjectEnd(c, i) ==
    IF i > Len(c) THEN 0
    ELSE IF c[i].tok = "}" THEN i
    ELSE IF c[i].tok = "member" THEN ObjectEnd(c, i + 1)
    ELSE 0
ReadValue(c) ==
    IF Len(c) >= 1 /\ c[1].tok = "{" THEN ObjectEnd(c, 2) ELSE 0

\* the members of the object are unmarshalled in order: a value of the
\* wrong type for a string field is skipped and reported at the end, an
\* error of UnmarshalJSON stops the decoding, an unknown key is ignored
RECURSIVE UnmarshalMembers(_, _, _, _, _)
UnmarshalMembers(c, i, end, v, err) ==
    IF i >= end THEN [v |-> v, err |-> err]
    ELSE IF c[i].k = "address"
    THEN IF c[i].t = "string"
         THEN UnmarshalMembers(c, i + 1, end,
                               [v EXCEPT !.Address = c[i].v], err)
         ELSE UnmarshalMembers(c, i + 1, end, v,
                               IF err = "nil" THEN "type" ELSE err)
    ELSE IF c[i].k = "communication_timeout"
    THEN LET r == UnmarshalDuration(c[i]) IN
         IF r.err # "nil" THEN [v |-> v, err |-> r.err]
         ELSE UnmarshalMembers(c, i + 1, end,
                               [v EXCEPT !.CommunicationTimeout = r.d], err)
    ELSE UnmarshalMembers(c, i + 1, end, v, err)

\* decoder.Decode(&proxyConfig): the first JSON value of the file is read
\* and unmarshalled into v; what follows it in the file is not read
Decode(c, v) ==
    IF ReadValue(c) = 0 THEN [v |-> v, err |-> "syntax"]
    ELSE UnmarshalMembers(c, 2, ReadValue(c), v, "nil")

\* a NewSSHProxyConfig that returns the configuration as far as decoded
DecodeErrorReturnsPartial(proxyConfig) == proxyConfig

\* NewSSHProxyConfig: what it returns with the error of Decode
DecodeErrorReturn(proxyConfig) == ZeroSSHProxyConfig

\* no call of NewSSHProxyConfig
NoConfigCall ==
    [pc |-> "none", configPath |-> "", files |-> <<>>,
     proxyConfig |-> ZeroSSHProxyConfig, result |-> ZeroSSHProxyConfig,
     err |-> "nil"]

\* NewSSHProxyConfig(configPath) is called with the files that exist
ConfigCall(configPath, files) ==
    [pc |-> "open", configPath |-> configPath, files |-> files,
     proxyConfig |-> ZeroSSHProxyConfig, result |-> ZeroSSHProxyConfig,
     err |-> "nil"]

\* the files are a sequence of [name, content]
FileNames(files) == {files[i].name : i \in DOMAIN files}
FileContent(files, name) ==
    files[CHOOSE i \in DOMAIN files : files[i].name = name].content

\* NewSSHProxyConfig: os.Open(configPath) and the return on its error
NewSSHProxyConfigOpen ==
    /\ cfg.pc = "open"
    /\ IF cfg.configPath \in FileNames(cfg.files)
       THEN cfg' = [cfg EXCEPT !.pc = "decode"]
       ELSE cfg' = [cfg EXCEPT !.pc = "done", !.err = "open",
                               !.result = ZeroSSHProxyConfig]
    /\ UNCHANGED <<env, allocPty, ptyRequest, command, ptyMaster, complete,
                   keepaliveStopCh, wg, mutex, pcD, pcW, pcK, child, dErr,
                   wErr, events, signals, winsize, kaSends, last, other,
                   modes>>

\* NewSSHProxyConfig: decoder.Decode(&proxyConfig) and the two returns
NewSSHProxyConfigDecode ==
    /\ cfg.pc = "decode"
    /\ LET r == Decode(FileContent(cfg.files, cfg.configPath),
                       cfg.proxyConfig)
       IN cfg' = [cfg EXCEPT
                    !.pc = "done",
                    !.proxyConfig = r.v,
                    !.err = r.err,
                    !.result = IF r.err # "nil" THEN DecodeErrorReturn(r.v)
                               ELSE r.v]
    /\ UNCHANGED <<env, allocPty, ptyRequest, command, ptyMaster, complete,
                   keepaliveStopCh, wg, mutex, pcD, pcW, pcK, child, dErr,
                   wErr, events, signals, winsize, kaSends, last, other,
                   modes>>

----------------------------------------------------------------------------
\* newSession: the session as constructed
SessionInit ==
    /\ env = DefaultEnv
    /\ allocPty = FALSE
    /\ ptyRequest = ZeroPtyRequest
    /\ command = NoCmd
    /\ ptyMaster = "nil"
    /\ complete = FALSE
    /\ keepaliveStopCh = "nil"
    /\ wg = 0
    /\ mutex = "free"
    /\ pcD = "idle"
    /\ pcW = "none"
    /\ pcK = "none"
    /\ child = "none"
    /\ dErr = NilErr
    /\ wErr = NilErr
    /\ events = <<>>
    /\ signals = <<>>
    /\ winsize = NoWinsize
    /\ kaSends = <<>>
    /\ last = NoRequest
    /\ other = NoSession

Init == SessionInit /\ cfg = NoConfigCall /\ modes = NoModesCall

----------------------------------------------------------------------------
(* Pure parts of the handlers *)

\* session.environment: the vectors the loop over the map may build
Environments(e) ==
    { <<PathEntry, LangEntry>>
        \o [i \in 1..Len(ks) |-> Sprintf(ks[i], e[ks[i]])]
        \o <<Sprintf(HOME, DaemonHome), Sprintf(USER, DaemonUser)>> :
      ks \in KeyOrders({k \in DOMAIN e : k # HOME /\ k # USER}) }

\* a whitespace token, for \s
IsSpace(t) == t = " "

\* scpRegex.MatchString: ^\s*scp($|\s+)
RECURSIVE SkipSpace(_, _)
SkipSpace(s, i) ==
    IF i <= Len(s) /\ IsSpace(s[i]) THEN SkipSpace(s, i + 1) ELSE i
ScpRegexMatch(s) ==
    LET i == SkipSpace(s, 1) IN
    /\ i <= Len(s)
    /\ s[i] = "scp"
    /\ (i = Len(s) \/ IsSpace(s[i + 1]))

\* a sendExitMessage that reports a child killed by a signal by exit-status
SendExitMessageNoSignal(err) ==
    IF err.kind = "nil" THEN ExitStatusMsg(0)
    ELSE IF err.kind = "exited" THEN ExitStatusMsg(Uint32(err.code))
    ELSE ExitStatusMsg(255)

\* session.sendExitMessage: the request it sends for the error it is given
SendExitMessage(err) ==
    IF err.kind = "nil" THEN ExitStatusMsg(0)
    ELSE IF err.kind = "other" THEN ExitStatusMsg(255)
    ELSE IF err.kind = "nosys" THEN ExitStatusMsg(255)
    ELSE IF err.kind = "signaled"
         THEN ExitSignalMsg(SSHSignals(err.sig), err.core)
    ELSE ExitStatusMsg(Uint32(err.code))

\* a sendSCPExitMessage that ignores the copier's error
SendSCPExitMessageZero(err) == ExitStatusMsg(0)

\* session.sendSCPExitMessage
SendSCPExitMessage(err) ==
    IF err.kind # "nil" THEN ExitStatusMsg(1) ELSE ExitStatusMsg(0)

\* a createCommand that never refuses
CreateCommandNeverFails == FALSE

\* session.createCommand: whether it refuses
CreateCommandFails == ~command.nil

\* session.destroy: whether it returns at once
DestroyReturnsEarly == complete

\* a Reply that answers also the requests that want no reply
ReplyAlways(want, ok) == IF ok THEN "true" ELSE "false"

\* request.Reply(ok, nil): what the peer is sent.  ssh.Request.Reply "must
\* be called for all requests where WantReply is true and is a no-op
\* otherwise"
Reply(want, ok) ==
    IF ~want THEN "none" ELSE IF ok THEN "true" ELSE "false"

\* if request.WantReply { request.Reply(ok, nil) }
ReplyIfWanted(want, ok) == IF want THEN Reply(want, ok) ELSE "none"

\* the dispatcher takes the next request once the handler of the previous
\* one has returned
DispatcherReady == pcD = "idle"

\* a goroutine that sends the exit message without waiting on the child
WaiterStartsBySending == "sendExit"

\* the goroutine executeShell starts: it waits on the child first
WaiterStart == "wait"

MapSet(m, k, v) ==
    [x \in DOMAIN m \cup {k} |-> IF x = k THEN v ELSE m[x]]

----------------------------------------------------------------------------
(* Request handlers that finish in one step.  The dispatcher runs one      *)
(* handler at a time (pcD = "idle" between them); a handler that locks the *)
(* mutex can run only when the mutex is free.                              *)

handleEnvironmentRequest(name, value, want, ok) ==
    /\ DispatcherReady
    /\ IF ~ok
       THEN /\ last' = [type |-> "env", want |-> want, ok |-> FALSE,
                        reply |-> Reply(want, FALSE),
                        ioctl |-> "none"]
            /\ UNCHANGED env
       ELSE /\ mutex = "free"
            /\ env' = MapSet(env, name, value)
            /\ last' = [type |-> "env", want |-> want, ok |-> TRUE,
                        reply |-> ReplyIfWanted(want, TRUE),
                        ioctl |-> "none"]
    /\ UNCHANGED <<allocPty, ptyRequest, command, ptyMaster, complete,
                   keepaliveStopCh, wg, mutex, pcD, pcW, pcK, child, dErr,
                   wErr, events, signals, winsize, kaSends, cfg, other,
                   modes>>

handleSignalRequest(name, want, ok) ==
    /\ DispatcherReady
    /\ IF ~ok
       THEN /\ last' = [type |-> "signal", want |-> want, ok |-> FALSE,
                        reply |-> ReplyIfWanted(want, FALSE),
                        ioctl |-> "none"]
            /\ UNCHANGED signals
       ELSE /\ mutex = "free"
            /\ IF ~command.nil
               THEN /\ Len(signals) < MaxSignals
                    /\ signals' = Append(signals,
                          [sig |-> SyscallSignals(name), by |-> "signal"])
               ELSE UNCHANGED signals
            /\ last' = [type |-> "signal", want |-> want, ok |-> TRUE,
                        reply |-> ReplyIfWanted(want, TRUE),
                        ioctl |-> "none"]
    /\ UNCHANGED <<env, allocPty, ptyRequest, command, ptyMaster, complete,
                   keepaliveStopCh, wg, mutex, pcD, pcW, pcK, child, dErr,
                   wErr, events, winsize, kaSends, cfg, other, modes>>

handlePtyRequest(term, cols, rows, want, ok) ==
    /\ DispatcherReady
    /\ IF ~ok
       THEN /\ last' = [type |-> "pty-req", want |-> want, ok |-> FALSE,
                        reply |-> ReplyIfWanted(want, FALSE),
                        ioctl |-> "none"]
            /\ UNCHANGED <<allocPty, ptyRequest, env>>
       ELSE /\ mutex = "free"
            /\ allocPty' = TRUE
            /\ ptyRequest' = [Term |-> term, Columns |-> cols, Rows |-> rows]
            /\ env' = MapSet(env, TERM, term)
            /\ last' = [type |-> "pty-req", want |-> want, ok |-> TRUE,
                        reply |-> ReplyIfWanted(want, TRUE),
                        ioctl |-> "none"]
    /\ UNCHANGED <<command, ptyMaster, complete, keepaliveStopCh, wg, mutex,
                   pcD, pcW, pcK, child, dErr, wErr, events, signals, winsize,
                   kaSends, cfg, other, modes>>

\* setWindowSize: the ioctl takes 16-bit sizes and may fail; last.ioctl
\* records whether it was issued and how it ended
handleWindowChangeRequest(cols, rows, want, ok) ==
    /\ DispatcherReady
    /\ IF ~ok
       THEN /\ last' = [type |-> "window-change", want |-> want, ok |-> FALSE,
                        reply |-> ReplyIfWanted(want, FALSE),
                        ioctl |-> "none"]
            /\ UNCHANGED <<ptyRequest, winsize>>
       ELSE /\ mutex = "free"
            /\ ptyRequest' = IF allocPty
                             THEN [ptyRequest EXCEPT !.Columns = cols,
                                                     !.Rows = rows]
                             ELSE ptyRequest
            /\ IF ptyMaster # "nil"
               THEN \E ioctlOk \in BOOLEAN :
                      /\ winsize' =
                           IF ioctlOk
                           THEN [Width |-> Uint16(ptyRequest'.Columns),
                                 Height |-> Uint16(ptyRequest'.Rows),
                                 set |-> TRUE]
                           ELSE winsize
                      /\ last' = [type |-> "window-change", want |-> want,
                                  ok |-> TRUE,
                                  reply |-> ReplyIfWanted(want, TRUE),
                                  ioctl |-> IF ioctlOk THEN "ok"
                                            ELSE "failed"]
               ELSE /\ UNCHANGED winsize
                    /\ last' = [type |-> "window-change", want |-> want,
                                ok |-> TRUE,
                                reply |-> ReplyIfWanted(want, TRUE),
                                ioctl |-> "none"]
    /\ UNCHANGED <<env, allocPty, command, ptyMaster, complete,
                   keepaliveStopCh, wg, mutex, pcD, pcW, pcK, child, dErr,
                   wErr, events, signals, kaSends, cfg, other, modes>>

----------------------------------------------------------------------------
(* Launching the shell *)

\* how a launch may end: the setup before runner.Start failed (the stdin
\* pipe, or opening the PTY), runner.Start failed, or the child runs
LaunchOutcomes == {"setup-error", "start-error", "started"}

\* a run that opened a PTY master as well
runOpensPty(o) ==
    [err |-> IF o = "started" THEN NilErr ELSE OtherErr,
     start |-> o # "setup-error",
     pumps |-> 0, pty |-> TRUE, keepalive |-> FALSE]

\* session.run: err returned, whether runner.Start was called, pumps added
\* to the wait group (the stdin copier is given no wait group), PTY master
\* kept, keepalive started
run(o) ==
    [err |-> IF o = "started" THEN NilErr ELSE OtherErr,
     start |-> o # "setup-error",
     pumps |-> 0, pty |-> FALSE, keepalive |-> FALSE]

\* session.runWithPty: the master is kept once opened, both directions of
\* the copier pair are counted in the wait group, the keepalive is started
\* once the child runs
runWithPty(o) ==
    [err |-> IF o = "started" THEN NilErr ELSE OtherErr,
     start |-> o # "setup-error",
     pumps |-> IF o = "setup-error" THEN 0 ELSE 2,
     pty |-> o # "setup-error",
     keepalive |-> o = "started"]

\* session.executeShell up to the start of the waiter goroutine, or to the
\* return that follows a refusal of createCommand
executeShell(type, args, want) ==
    /\ DispatcherReady
    /\ mutex = "free"
    /\ IF CreateCommandFails
       THEN /\ last' = [type |-> type, want |-> want, ok |-> TRUE,
                        reply |-> ReplyIfWanted(want, FALSE),
                        ioctl |-> "none"]
            /\ UNCHANGED <<command, events, ptyMaster, wg, keepaliveStopCh,
                           pcK, child, dErr, pcD, pcW, winsize>>
       ELSE \E envv \in Environments(env), o \in LaunchOutcomes :
            LET r == IF allocPty THEN runWithPty(o) ELSE run(o)
                e1 == IF want
                      THEN Append(events, Ev("reply", type, NoMsg, args))
                      ELSE events
                e2 == IF r.start
                      THEN Append(e1, Ev("start", type, NoMsg, args))
                      ELSE e1
                e3 == IF r.err.kind = "nil"
                      THEN Append(e2, Ev("waiter", type, NoMsg, args))
                      ELSE e2
            IN
            /\ command' = [nil |-> FALSE, args |-> args, Env |-> envv]
            /\ last' = [type |-> type, want |-> want, ok |-> TRUE,
                        reply |-> ReplyIfWanted(want, TRUE),
                        ioctl |-> "none"]
            /\ events' = e3
            /\ ptyMaster' = IF r.pty THEN "open" ELSE ptyMaster
            /\ winsize' = IF r.pty
                          THEN [Width |-> Uint16(ptyRequest.Columns),
                                Height |-> Uint16(ptyRequest.Rows),
                                set |-> TRUE]
                          ELSE winsize
            /\ wg' = wg + r.pumps
            /\ keepaliveStopCh' = IF r.keepalive THEN "open"
                                  ELSE keepaliveStopCh
            /\ pcK' = IF r.keepalive THEN "running" ELSE pcK
            /\ child' = IF r.err.kind = "nil" THEN "running" ELSE child
            /\ dErr' = r.err
            /\ pcD' = IF r.err.kind = "nil" THEN "idle" ELSE "sendExit"
            /\ pcW' = IF r.err.kind = "nil" THEN WaiterStart ELSE pcW
    /\ UNCHANGED <<env, allocPty, ptyRequest, complete, mutex, wErr, signals,
                   kaSends, cfg, other, modes>>

handleShellRequest(want) == executeShell("shell", <<>>, want)

\* session.handleExecRequest, to the point where executeSCP calls the copier
handleExecRequest(cmd, want, ok) ==
    IF ~ok
    THEN /\ DispatcherReady
         /\ last' = [type |-> "exec", want |-> want, ok |-> FALSE,
                     reply |-> ReplyIfWanted(want, FALSE),
                     ioctl |-> "none"]
         /\ UNCHANGED <<env, allocPty, ptyRequest, command, ptyMaster,
                        complete, keepaliveStopCh, wg, mutex, pcD, pcW, pcK,
                        child, dErr, wErr, events, signals, winsize,
                        kaSends, cfg, other, modes>>
    ELSE IF ScpRegexMatch(cmd)
    THEN /\ DispatcherReady
         /\ Count("copy") < MaxCopies
         /\ last' = [type |-> "exec", want |-> want, ok |-> TRUE,
                     reply |-> ReplyIfWanted(want, TRUE),
                     ioctl |-> "none"]
         /\ events' = (IF want
                       THEN Append(events, Ev("reply", "scp", NoMsg, cmd))
                       ELSE events)
                      \o <<Ev("copy", "scp", NoMsg, cmd)>>
         /\ pcD' = "scpCopy"
         /\ UNCHANGED <<env, allocPty, ptyRequest, command, ptyMaster,
                        complete, keepaliveStopCh, wg, mutex, pcW, pcK,
                        child, dErr, wErr, signals, winsize, kaSends, cfg,
                        other, modes>>
    ELSE executeShell("exec", <<"-c">> \o cmd, want)

\* executeShell after a failed launch: sess.sendExitMessage(err)
ShellSendExit ==
    /\ pcD = "sendExit"
    /\ events' = Append(events,
                        Ev("send", "shell", SendExitMessage(dErr), <<>>))
    /\ pcD' = "destroy"
    /\ UNCHANGED <<env, allocPty, ptyRequest, command, ptyMaster, complete,
                   keepaliveStopCh, wg, mutex, pcW, pcK, child, dErr, wErr,
                   signals, winsize, last, kaSends, cfg, other, modes>>

\* executeSCP: scp.NewFromCommand and copier.Copy return
ScpCopyReturns(err) ==
    /\ pcD = "scpCopy"
    /\ dErr' = err
    /\ pcD' = "scpExit"
    /\ UNCHANGED <<env, allocPty, ptyRequest, command, ptyMaster, complete,
                   keepaliveStopCh, wg, mutex, pcW, pcK, child, wErr, events,
                   signals, winsize, last, kaSends, cfg, other, modes>>

\* executeSCP: sess.sendSCPExitMessage(err)
ScpSendExit ==
    /\ pcD = "scpExit"
    /\ events' = Append(events,
                        Ev("send", "scp", SendSCPExitMessage(dErr), <<>>))
    /\ pcD' = "destroy"
    /\ UNCHANGED <<env, allocPty, ptyRequest, command, ptyMaster, complete,
                   keepaliveStopCh, wg, mutex, pcW, pcK, child, dErr, wErr,
                   signals, winsize, last, kaSends, cfg, other, modes>>

----------------------------------------------------------------------------
(* The child, the waiter goroutine, the pumps and the keepalive *)

\* the child process terminates
ChildExits ==
    /\ child = "running"
    /\ child' = "exited"
    /\ UNCHANGED <<env, allocPty, ptyRequest, command, ptyMaster, complete,
                   keepaliveStopCh, wg, mutex, pcD, pcW, pcK, dErr, wErr,
                   events, signals, winsize, last, kaSends, cfg, other,
                   modes>>

\* session.wait: runner.Wait returns err once the child has terminated
WaitReturns(err) ==
    /\ pcW = "wait"
    /\ child = "exited"
    /\ wErr' = err
    /\ pcW' = "sendExit"
    /\ UNCHANGED <<env, allocPty, ptyRequest, command, ptyMaster, complete,
                   keepaliveStopCh, wg, mutex, pcD, pcK, child, dErr, events,
                   signals, winsize, last, kaSends, cfg, other, modes>>

\* the goroutine of executeShell: sess.sendExitMessage(err)
WaiterSendExit ==
    /\ pcW = "sendExit"
    /\ events' = Append(events,
                        Ev("send", "waiter", SendExitMessage(wErr), <<>>))
    /\ pcW' = "destroy"
    /\ UNCHANGED <<env, allocPty, ptyRequest, command, ptyMaster, complete,
                   keepaliveStopCh, wg, mutex, pcD, pcK, child, dErr, wErr,
                   signals, winsize, last, kaSends, cfg, other, modes>>

\* a pump counted in the wait group ends: wg.Done()
PumpDone ==
    /\ wg > 0
    /\ wg' = wg - 1
    /\ UNCHANGED <<env, allocPty, ptyRequest, command, ptyMaster, complete,
                   keepaliveStopCh, mutex, pcD, pcW, pcK, child, dErr, wErr,
                   events, signals, winsize, last, kaSends, cfg, other,
                   modes>>

\* a keepalive that goes on ticking after a failed send
KeepaliveGoesOn == "running"

\* session.keepalive: the return that follows a failed send
KeepaliveAfterFailure == "done"

\* channel.Close() has been called: from then on SendRequest on the channel
\* returns io.EOF
ChannelClosed == Count("close") > 0

\* session.keepalive, case <-ticker.C; ok records whether the send
\* succeeded, which it can only while the channel is open
KeepaliveTick(sendOk) ==
    /\ pcK = "running"
    /\ Len(kaSends) < MaxTicks
    /\ sendOk => ~ChannelClosed
    /\ kaSends' = Append(kaSends, [msg |-> KeepaliveMsg, ok |-> sendOk])
    /\ IF sendOk
       THEN UNCHANGED <<signals, pcK>>
       ELSE /\ signals' = Append(signals, [sig |-> SIGHUP, by |-> "keepalive"])
            /\ pcK' = KeepaliveAfterFailure
    /\ UNCHANGED <<env, allocPty, ptyRequest, command, ptyMaster, complete,
                   keepaliveStopCh, wg, mutex, pcD, pcW, child, dErr, wErr,
                   events, winsize, last, cfg, other, modes>>

\* session.keepalive, case <-stopCh
KeepaliveStop ==
    /\ pcK = "running"
    /\ keepaliveStopCh = "closed"
    /\ pcK' = "stopped"
    /\ UNCHANGED <<env, allocPty, ptyRequest, command, ptyMaster, complete,
                   keepaliveStopCh, wg, mutex, pcD, pcW, child, dErr, wErr,
                   events, signals, winsize, kaSends, last, cfg, other,
                   modes>>

----------------------------------------------------------------------------
(* session.destroy, called by the dispatcher (after a failed launch or an  *)
(* SCP copy) and by the waiter goroutine                                   *)

Tasks == {"dispatcher", "waiter"}
Pc(t) == IF t = "dispatcher" THEN pcD ELSE pcW
\* where the task goes on once destroy has returned
AfterDestroy(t) == IF t = "dispatcher" THEN "idle" ELSE "done"
SetPc(t, v) ==
    IF t = "dispatcher" THEN pcD' = v /\ pcW' = pcW
                        ELSE pcW' = v /\ pcD' = pcD

\* sess.Lock(), the test of sess.complete and, when it is set, the return
DestroyEnter(t) ==
    /\ Pc(t) = "destroy"
    /\ mutex = "free"
    /\ IF DestroyReturnsEarly
       THEN SetPc(t, AfterDestroy(t)) /\ UNCHANGED mutex
       ELSE SetPc(t, "destroyWait") /\ mutex' = t
    /\ UNCHANGED <<env, allocPty, ptyRequest, command, ptyMaster, complete,
                   keepaliveStopCh, wg, pcK, child, dErr, wErr, events,
                   signals, winsize, last, kaSends, cfg, other, modes>>

\* a destroy that closes the PTY master and keeps the reference
ClosedPtyMasterKept == "closed"

\* session.destroy: sess.ptyMaster once the master has been closed
ClosedPtyMaster == "nil"

\* a wg.Wait() that does not wait
WgWaitReturnsAtOnce == TRUE

\* sess.wg.Wait() returns once every pump added to the wait group is done
WgWaitReturns == wg = 0

\* sess.wg.Wait() has returned: the rest of destroy, with the mutex held
DestroyFinish(t) ==
    /\ Pc(t) = "destroyWait"
    /\ mutex = t
    /\ WgWaitReturns
    /\ complete' = TRUE
    /\ events' = events
                 \o <<Ev("complete", t, NoMsg, <<>>)>>
                 \o <<Ev("close", t, NoMsg, <<>>)>>
                 \o (IF ptyMaster # "nil"
                     THEN <<Ev("ptyclose", t, NoMsg, <<>>)>> ELSE <<>>)
                 \o (IF keepaliveStopCh # "nil"
                     THEN <<Ev("stopclose", t, NoMsg, <<>>)>> ELSE <<>>)
    /\ ptyMaster' = IF ptyMaster # "nil" THEN ClosedPtyMaster ELSE ptyMaster
    /\ keepaliveStopCh' = IF keepaliveStopCh # "nil" THEN "closed"
                          ELSE keepaliveStopCh
    /\ mutex' = "free"
    /\ SetPc(t, AfterDestroy(t))
    /\ UNCHANGED <<env, allocPty, ptyRequest, command, wg, pcK, child, dErr,
                   wErr, signals, winsize, last, kaSends, cfg, other, modes>>

----------------------------------------------------------------------------
(* The requests a peer sends in the model *)

----------------------------------------------------------------------------
(* The life cycle of a session: pty-req, signal, shell requests with and   *)
(* without want_reply, exec requests with an scp and with another command, *)
(* launches that succeed or fail, the child, the waiter, the pumps, the    *)
(* keepalive and teardown, in every interleaving.                          *)

\* what runner.Wait may return
WaitErrs == {NilErr, ExitedErr(3)}
\* what the copier may return
CopyErrs == {NilErr, OtherErr}
ScpCommand == <<"scp", " ", "-t">>
OtherCommand == <<"/bin/true">>

Signal == handleSignalRequest("TERM", TRUE, TRUE)
PtyReq == handlePtyRequest(<<"xterm">>, 80, 24, TRUE, TRUE)
Shell == \E want \in BOOLEAN : handleShellRequest(want)
Exec == \E c \in {ScpCommand, OtherCommand} :
          handleExecRequest(c, TRUE, TRUE)
ScpCopy == \E err \in CopyErrs : ScpCopyReturns(err)
Wait == \E err \in WaitErrs : WaitReturns(err)
Keepalive == \E sendOk \in BOOLEAN : KeepaliveTick(sendOk)
DestroyLock == \E t \in Tasks : DestroyEnter(t)
DestroyRest == \E t \in Tasks : DestroyFinish(t)

Next ==
    \/ Signal
    \/ PtyReq
    \/ Shell
    \/ Exec
    \/ ShellSendExit
    \/ ScpCopy
    \/ ScpSendExit
    \/ ChildExits
    \/ Wait
    \/ WaiterSendExit
    \/ PumpDone
    \/ Keepalive
    \/ KeepaliveStop
    \/ DestroyLock
    \/ DestroyRest

Spec == Init /\ [][Next]_vars

\* the ticker of the keepalive fires again and again, and a select with a
\* closed stop channel takes that case in the end
SpecLive == Spec /\ WF_vars(Keepalive) /\ WF_vars(KeepaliveStop)

----------------------------------------------------------------------------
(* The requests that configure a session, then a shell launch: env         *)
(* requests over names that include HOME, USER, PATH and a name containing *)
(* "=", pty-req and window-change.                                         *)

EnvNames == {HOME, USER, HOMEx, FOO, PATH}
EnvValue(n) == IF n = HOME THEN {<<"a">>, <<"b">>} ELSE {<<"a">>}

EnvE == \E n \in EnvNames : \E v \in EnvValue(n) :
          handleEnvironmentRequest(n, v, TRUE, TRUE)
\* columns and rows a window-change request may carry
WindowSizes == {<<132, 40>>, <<65616, 24>>}
WindowChangeE == \E sz \in WindowSizes :
          handleWindowChangeRequest(sz[1], sz[2], TRUE, TRUE)
ShellE == handleShellRequest(TRUE)
WaitE == WaitReturns(NilErr)

NextEnv ==
    \/ EnvE
    \/ PtyReq
    \/ WindowChangeE
    \/ ShellE
    \/ ShellSendExit
    \/ ChildExits
    \/ WaitE
    \/ WaiterSendExit
    \/ PumpDone
    \/ DestroyLock
    \/ DestroyRest

SpecEnv == Init /\ [][NextEnv]_vars

----------------------------------------------------------------------------
(* Every outcome of waiting on the child: no error, an error that is no    *)
(* exit error, an exit error without a wait status, every exit code and    *)
(* every signal with and without a core dump.                              *)

ExitCodes == 1..255
SignalNumbers == 1..31
AllWaitErrs ==
    {NilErr, OtherErr, NoSysErr}
      \cup {ExitedErr(c) : c \in ExitCodes}
      \cup {SignaledErr(sg, cd) : sg \in SignalNumbers, cd \in BOOLEAN}

WaitX == \E err \in AllWaitErrs : WaitReturns(err)

NextExit ==
    \/ ShellE
    \/ ShellSendExit
    \/ ChildExits
    \/ WaitX
    \/ WaiterSendExit
    \/ DestroyLock
    \/ DestroyRest

SpecExit == Init /\ [][NextExit]_vars

----------------------------------------------------------------------------
(* Requests whose payload cannot be decoded, with and without want_reply,  *)
(* before the launch, while the child runs and after teardown; exec        *)
(* requests that want no reply.                                            *)

BadEnv == \E want \in BOOLEAN :
            handleEnvironmentRequest(<<>>, <<>>, want, FALSE)
BadSignal == \E want \in BOOLEAN : handleSignalRequest("", want, FALSE)
BadPtyReq == \E want \in BOOLEAN :
               handlePtyRequest(<<>>, 0, 0, want, FALSE)
BadWindowChange == \E want \in BOOLEAN :
                     handleWindowChangeRequest(0, 0, want, FALSE)
BadExec == \E want \in BOOLEAN : handleExecRequest(<<>>, want, FALSE)
ExecQuiet == \E c \in {ScpCommand, OtherCommand} :
               handleExecRequest(c, FALSE, TRUE)

NextReq ==
    \/ BadEnv
    \/ BadSignal
    \/ BadPtyReq
    \/ BadWindowChange
    \/ BadExec
    \/ PtyReq
    \/ ShellE
    \/ ExecQuiet
    \/ ScpCopy
    \/ ScpSendExit
    \/ ShellSendExit
    \/ ChildExits
    \/ WaitE
    \/ WaiterSendExit
    \/ PumpDone
    \/ DestroyLock
    \/ DestroyRest

SpecReq == Init /\ [][NextReq]_vars

----------------------------------------------------------------------------
(* Calls of NewSSHProxyConfig: with the path of a file that does not       *)
(* exist, and with the path of a file that is empty, is no JSON, is cut    *)
(* short, has text after the object, or is an object whose members have    *)
(* values of the right and of the wrong type.                              *)

ConfigMembers ==
    {Member("address", "string", <<"1.1.1.1">>),
     Member("address", "number", <<"5">>),
     Member("communication_timeout", "string", <<"5", "s">>),
     Member("communication_timeout", "string", <<"abc">>),
     Member("communication_timeout", "number", <<"4234342342">>),
     Member("unknown_key", "string", <<"x">>)}
MemberSeqs == UNION {[1..n -> ConfigMembers] : n \in 0..MaxMembers}
ConfigContents ==
    {<<LBrace>> \o ms \o <<RBrace>> : ms \in MemberSeqs}
      \cup {<<LBrace>> \o ms : ms \in MemberSeqs}
      \cup {<<>>, <<LBrace, LBrace>>, <<LBrace, RBrace, LBrace>>}
ConfigPaths == {"foobar", "ssh-proxy-config"}

InitConfig ==
    /\ SessionInit
    /\ modes = NoModesCall
    /\ cfg \in {ConfigCall(path, <<[name |-> "ssh-proxy-config",
                                    content |-> c]>>) :
                  path \in ConfigPaths, c \in ConfigContents}

NextConfig ==
    \/ NewSSHProxyConfigOpen
    \/ NewSSHProxyConfigDecode

SpecConfig == InitConfig /\ [][NextConfig]_vars

----------------------------------------------------------------------------
(* Two sessions of one handler.  newSession stores handler.defaultEnv, a   *)
(* map, in the env field of each session it builds: the field of the       *)
(* handler and the env fields of all its sessions refer to one map, which  *)
(* is what the variable env holds.  The second session has its own mutex,  *)
(* so nothing orders its writes to the map against those of the first.     *)

LANGx == <<"LC_ALL">>

\* handler.defaultEnv, read when a later session is built
HandlerDefaultEnv == env

\* newSession, for the second session: env is handler.defaultEnv
newSessionOther ==
    /\ ~other.created
    /\ other' = [other EXCEPT !.created = TRUE]
    /\ UNCHANGED <<env, allocPty, ptyRequest, command, ptyMaster, complete,
                   keepaliveStopCh, wg, mutex, pcD, pcW, pcK, child, dErr,
                   wErr, events, signals, winsize, kaSends, last, cfg, modes>>

\* handleEnvironmentRequest on the second session
handleEnvironmentRequestOther(name, value) ==
    /\ other.created
    /\ env' = MapSet(env, name, value)
    /\ UNCHANGED <<allocPty, ptyRequest, command, ptyMaster, complete,
                   keepaliveStopCh, wg, mutex, pcD, pcW, pcK, child, dErr,
                   wErr, events, signals, winsize, kaSends, last, cfg,
                   other, modes>>

\* createCommand on the second session: the vector its child is given
createCommandOther ==
    /\ other.created
    /\ other.command.nil
    /\ \E envv \in Environments(env) :
         other' = [other EXCEPT !.command = [nil |-> FALSE,
                                             args |-> <<"/bin/bash">>,
                                             Env |-> envv]]
    /\ UNCHANGED <<env, allocPty, ptyRequest, command, ptyMaster, complete,
                   keepaliveStopCh, wg, mutex, pcD, pcW, pcK, child, dErr,
                   wErr, events, signals, winsize, kaSends, last, cfg, modes>>

\* the first session is sent FOO, the second LC_ALL
EnvFoo == handleEnvironmentRequest(FOO, <<"a">>, TRUE, TRUE)
EnvOther == handleEnvironmentRequestOther(LANGx, <<"C">>)

NextTwo ==
    \/ EnvFoo
    \/ PtyReq
    \/ ShellE
    \/ ShellSendExit
    \/ ChildExits
    \/ WaitE
    \/ WaiterSendExit
    \/ PumpDone
    \/ DestroyLock
    \/ DestroyRest
    \/ newSessionOther
    \/ EnvOther
    \/ createCommandOther

SpecTwo == Init /\ [][NextTwo]_vars

----------------------------------------------------------------------------
(* setTerminalAttributes: the loop over the modelist of a pty-req, one     *)
(* iteration a step.  The table TermAttrSetters and TcGetAttr are not part *)
(* of the file; the table is taken from the terminal modes registry the    *)
(* specification names.                                                    *)

MaxRecords == 3

\* the opcodes the registry of terminal modes defines
TermAttrSetters ==
    (1..18) \cup (30..41) \cup (50..62) \cup (70..75) \cup (90..93)
        \cup {128, 129}

\* TermAttrSetters[opcode].Set for an opcode the table has no entry for: the
\* index yields the zero value of the element type, and the call through it
\* panics (a nil interface or pointer) or runs the setter of a zero value
MissingSetterCalls == {"panic", "zero"}

\* binary.Read of a uint32, big endian
BigEndian(b) == ((b[1] * 256 + b[2]) * 256 + b[3]) * 256 + b[4]

ModesCall(m) == [modelist |-> m, offset |-> 0, did |-> <<>>, pc |-> "loop"]

\* one iteration of the loop: getOk and setOk say whether TcGetAttr and the
\* setter succeed, missing how a call without a setter ends
setTerminalAttributes(getOk, setOk, missing) ==
    /\ modes.pc = "loop"
    /\ LET m == modes.modelist
           i == modes.offset
           opcode == m[i + 1]
           value == BigEndian(SubSeq(m, i + 2, i + 5))
           Did(what) == Append(modes.did, [opcode |-> opcode,
                                           value |-> value, what |-> what])
       IN
       IF i + 1 > Len(m)
       THEN modes' = [modes EXCEPT !.pc = "done"]
       ELSE IF opcode = 0 \/ opcode >= 160
       THEN modes' = [modes EXCEPT !.pc = "done", !.offset = i + 1]
       ELSE IF i + 5 > Len(m)
       THEN modes' = [modes EXCEPT !.pc = "done", !.offset = Len(m)]
       ELSE IF ~getOk
       THEN modes' = [modes EXCEPT !.offset = i + 5,
                                   !.did = Did("get-failed")]
       ELSE IF opcode \notin TermAttrSetters
       THEN IF missing = "panic"
            THEN modes' = [modes EXCEPT !.offset = i + 5, !.pc = "panic",
                                        !.did = Did("panic")]
            ELSE modes' = [modes EXCEPT !.offset = i + 5,
                                        !.did = Did("set-zero")]
       ELSE modes' = [modes EXCEPT !.offset = i + 5,
                                   !.did = Did(IF setOk THEN "set"
                                               ELSE "set-failed")]
    /\ UNCHANGED <<env, allocPty, ptyRequest, command, ptyMaster, complete,
                   keepaliveStopCh, wg, mutex, pcD, pcW, pcK, child, dErr,
                   wErr, events, signals, winsize, kaSends, last, cfg,
                   other>>

\* pieces modelists are put together from: records with the opcodes VINTR,
\* ECHO and 20 (which the registry leaves out), the opcodes that end a
\* modelist, and a record cut short
ModelistItems ==
    {<<1, 0, 0, 0, 3>>, <<53, 0, 0, 1, 0>>, <<20, 0, 0, 0, 1>>,
     <<0>>, <<160>>, <<1, 0, 0>>}
RECURSIVE Flatten(_)
Flatten(ss) == IF ss = <<>> THEN <<>> ELSE Head(ss) \o Flatten(Tail(ss))
Modelists ==
    UNION {{Flatten(ss) : ss \in [1..n -> ModelistItems]} :
             n \in 0..MaxRecords}

InitModes ==
    /\ SessionInit
    /\ cfg = NoConfigCall
    /\ modes \in {ModesCall(m) : m \in Modelists}

NextModes ==
    \E getOk \in BOOLEAN, setOk \in BOOLEAN, missing \in MissingSetterCalls :
      setTerminalAttributes(getOk, setOk, missing)

SpecModes == InitModes /\ [][NextModes]_vars

----------------------------------------------------------------------------
(* Properties *)

IsExitNote(ev) ==
    ev.e = "send" /\ ev.msg.type \in {"exit-status", "exit-signal"}
\* the exit notifications the session has sent
ExitNotes == {i \in DOMAIN events : IsExitNote(events[i])}
\* those handed to the channel before channel.Close was called
OpenExitNotes == {i \in ExitNotes : events[i].open}
\* those sent by executeShell and its waiter goroutine
ShellPathExits == {i \in ExitNotes : events[i].by \in {"shell", "waiter"}}

\* C1: a session never sends more than one exit notification, and it has
\* sent exactly one once the waiter has reported the reaped child, a failed
\* launch has been reported or the SCP copy has been reported.
C1_ExactlyOneExitNotification ==
    /\ Cardinality(OpenExitNotes) <= 1
    /\ (\/ pcW \in {"destroy", "destroyWait", "done"}
        \/ pcD \in {"destroy", "destroyWait"}
        \/ complete)
       => Cardinality(OpenExitNotes) = 1

\* C2: runner.Start is called at most once in the life of a session.
C2_AtMostOneStart == Count("start") <= 1

\* C2 witness: runner.Start failed, and a later shell or exec request was
\* refused without another start.
C2_Witness ==
    /\ Count("start") = 1
    /\ child = "none"
    /\ pcD = "idle"
    /\ last.type \in {"shell", "exec"}
    /\ last.reply = "false"

\* a step in which the dispatcher takes an exec or shell request
ExecOrShellStep ==
    /\ pcD = "idle"
    /\ last'.type \in {"exec", "shell"}
    /\ last'.ok
    /\ (last' # last \/ pcD' # "idle" \/ command' # command)

\* C3: once a shell launch or an SCP copy has committed the session, a
\* later exec or shell request starts no child, calls no copier, sends
\* nothing, runs no teardown and is answered negatively if it wants a reply.
C3_SecondCommitRejected ==
    [][(ExecOrShellStep /\ (~command.nil \/ Count("copy") > 0))
         => /\ events' = events
            /\ pcD' = "idle"
            /\ (last'.want => last'.reply = "false")]_vars

\* C4: over the life of a session the channel, the PTY master and the
\* keepalive stop channel are each closed at most once, and once the
\* teardown called by the waiter has returned the channel has been closed
\* once and no PTY master or keepalive is left open.
C4_TeardownClosesExactlyOnce ==
    /\ Count("close") <= 1
    /\ Count("ptyclose") <= 1
    /\ Count("stopclose") <= 1
    /\ pcW = "done" => /\ Count("close") = 1
                       /\ ptyMaster = "nil"
                       /\ keepaliveStopCh # "open"

\* C5: once complete is set no request is acted on: env, allocPty and
\* ptyRequest stay as they are, no signal request reaches the child, and
\* no child is started, no copier called and no exit notification sent by
\* a request handler.
C5_NothingAfterComplete ==
    [][complete =>
         /\ env' = env
         /\ allocPty' = allocPty
         /\ ptyRequest' = ptyRequest
         /\ SelectSeq(signals', LAMBDA x : x.by = "signal")
              = SelectSeq(signals, LAMBDA x : x.by = "signal")
         /\ SelectSeq(events', LAMBDA x : x.e \in {"start", "copy"})
              = SelectSeq(events, LAMBDA x : x.e \in {"start", "copy"})
         /\ SelectSeq(events', LAMBDA x : IsExitNote(x) /\ x.by # "waiter")
              = SelectSeq(events, LAMBDA x : IsExitNote(x) /\ x.by # "waiter")
      ]_vars

\* C6: the positive reply to a committing exec or shell request precedes
\* the start of the child or the call of the copier for that request, and
\* precedes every exit notification of the session.
C6_ReplyBeforeExit ==
    \A i \in DOMAIN events :
      (events[i].e = "reply" /\ events[i].open) =>
        /\ \A j \in DOMAIN events :
             (events[j].e \in {"start", "copy"} /\ events[j].by = events[i].by)
               => i < j
        /\ \A j \in OpenExitNotes : i < j

\* C7: executeShell and its waiter send an exit notification only after
\* runner.Wait has returned for the started child, or after a launch that
\* failed; none while the child runs.
C7_ExitOnlyAfterWaitOrFailure ==
    /\ child = "running" => ShellPathExits = {}
    /\ \A i \in ShellPathExits :
         IF events[i].by = "waiter"
         THEN child = "exited" /\ pcW \in {"destroy", "destroyWait", "done"}
         ELSE child = "none" /\ Count("waiter") = 0

\* C7 witness: the child has terminated, runner.Wait has returned and the
\* waiter has sent the exit notification.
C7_Witness ==
    /\ child = "exited"
    /\ \E i \in ShellPathExits : events[i].by = "waiter"

\* the exit notifications sent by the waiter goroutine
WaiterExits == {i \in ExitNotes : events[i].by = "waiter"}

\* C8: for the error runner.Wait returned, sendExitMessage sends exactly one
\* request, without want_reply: exit-status 0 for no error, exit-status with
\* the exit code for a child that exited, exit-signal with the SSH name of
\* the signal and the core-dump flag for a child killed by a signal, and
\* exit-status 255 for any other error.
C8_ExitMessage ==
    pcW \in {"destroy", "destroyWait", "done"} =>
      /\ Cardinality(WaiterExits) = 1
      /\ \A i \in WaiterExits :
           LET m == events[i].msg IN
           /\ m.want = FALSE
           /\ wErr.kind = "nil" => m.type = "exit-status" /\ m.status = 0
           /\ wErr.kind = "exited" =>
                m.type = "exit-status" /\ m.status = wErr.code
           /\ wErr.kind = "signaled" =>
                /\ m.type = "exit-signal"
                /\ m.core = wErr.core
                /\ \A n \in SigNames : SigNumber[n] = wErr.sig => m.signal = n
           /\ wErr.kind \in {"other", "nosys"} =>
                m.type = "exit-status" /\ m.status = 255

\* C8 witness: the child was killed by SIGSEGV with a core dump and the
\* waiter has sent exit-signal SEGV with the core-dump flag.
C8_Witness ==
    /\ pcW = "done"
    /\ wErr = SignaledErr(SigNumber["SEGV"], TRUE)
    /\ \E i \in WaiterExits :
         events[i].msg = ExitSignalMsg("SEGV", TRUE)

\* C9: the exit notification of a failed launch is exit-status 255, no
\* waiter is started, teardown has run by the time the handler is past it,
\* and it stays the only exit notification of the session.
C9_FailedLaunch ==
    \A i \in ExitNotes :
      events[i].by = "shell" =>
        /\ events[i].msg = ExitStatusMsg(255)
        /\ Count("waiter") = 0
        /\ pcD \notin {"destroy", "destroyWait"} => complete
        /\ ExitNotes = {i}

\* position of the first "=" of an entry, 0 when there is none
RECURSIVE FirstEq(_, _)
FirstEq(s, i) ==
    IF i > Len(s) THEN 0
    ELSE IF s[i] = EQ THEN i
    ELSE FirstEq(s, i + 1)

\* how the child reads an entry of its environment vector: the name is
\* what precedes the first "=", the value what follows it
EntryName(s) ==
    IF FirstEq(s, 1) = 0 THEN s ELSE SubSeq(s, 1, FirstEq(s, 1) - 1)
EntryValue(s) ==
    IF FirstEq(s, 1) = 0 THEN <<>> ELSE SubSeq(s, FirstEq(s, 1) + 1, Len(s))

HomeEntries(v) == {i \in DOMAIN v : EntryName(v[i]) = HOME}
UserEntries(v) == {i \in DOMAIN v : EntryName(v[i]) = USER}
WithHomeUser(e, h, u) == MapSet(MapSet(e, HOME, h), USER, u)

\* C10: the environment vector of the child has exactly one HOME entry and
\* exactly one USER entry, with the daemon's values, and the vectors that
\* can be built do not depend on the values the peer sent for HOME and USER.
C10_HomeUserFromDaemon ==
    /\ ~command.nil =>
         /\ Cardinality(HomeEntries(command.Env)) = 1
         /\ Cardinality(UserEntries(command.Env)) = 1
         /\ \A i \in HomeEntries(command.Env) :
              EntryValue(command.Env[i]) = DaemonHome
         /\ \A i \in UserEntries(command.Env) :
              EntryValue(command.Env[i]) = DaemonUser
    /\ \A h, u \in {<<"a">>, <<"b">>} :
         Environments(WithHomeUser(env, h, u))
           = Environments(WithHomeUser(env, <<"a">>, <<"a">>))

PathEntries(v) == {i \in DOMAIN v : EntryName(v[i]) = PATH}
LangEntries(v) == {i \in DOMAIN v : EntryName(v[i]) = LANG}

\* C11: the environment vector of the child contains PATH=/bin:/usr/bin and
\* LANG=en_US.UTF8, and they are its only PATH and LANG entries whatever
\* env requests the peer sent.
C11_PathLangFixed ==
    ~command.nil =>
      /\ \E i \in DOMAIN command.Env : command.Env[i] = PathEntry
      /\ \E i \in DOMAIN command.Env : command.Env[i] = LangEntry
      /\ \A i \in PathEntries(command.Env) : command.Env[i] = PathEntry
      /\ \A i \in LangEntries(command.Env) : command.Env[i] = LangEntry

\* a step in which the dispatcher takes a request it cannot decode
BadRequestStep == last' # last /\ ~last'.ok

\* C12: a request whose payload cannot be decoded changes nothing of the
\* session, starts no child, delivers no signal and sends no exit
\* notification, and the peer is sent a negative reply exactly when the
\* request wanted a reply.
C12_DecodeFailure ==
    [][BadRequestStep =>
         /\ last'.type \in {"env", "signal", "pty-req", "window-change",
                            "exec"}
         /\ UNCHANGED <<env, allocPty, ptyRequest, command, ptyMaster,
                        complete, child, signals, events, winsize, pcD, pcW>>
         /\ last'.reply = (IF last'.want THEN "false" ELSE "none")]_vars

\* C12 witness: while the child runs, an env request that cannot be decoded
\* and wants no reply has been taken, and nothing was sent for it.
C12_Witness ==
    /\ child = "running"
    /\ last.type = "env"
    /\ ~last.ok
    /\ ~last.want
    /\ last.reply = "none"

\* the exit notifications sent by executeSCP
ScpExits == {i \in ExitNotes : events[i].by = "scp"}
\* the calls of the copier
Copies == {i \in DOMAIN events : events[i].e = "copy"}
\* the exit notifications sent by request handlers
HandlerExits == {i \in ExitNotes : events[i].by \in {"scp", "shell"}}

\* C13: an exec request with an scp command starts no child and calls the
\* copier once, with that command; once the copier has returned the session
\* sends exit-status 0 if it returned no error and exit-status 1 otherwise,
\* and teardown has run when the handler returns.
C13_ScpCopy ==
    /\ \A i \in DOMAIN events :
         events[i].by = "scp" => events[i].e \in {"reply", "copy", "send"}
    /\ \A i \in Copies : ScpRegexMatch(events[i].cmd)
    /\ Cardinality(ScpExits) =
         (IF pcD \in {"scpCopy", "scpExit"}
          THEN Cardinality(Copies) - 1 ELSE Cardinality(Copies))
    /\ \A i \in ScpExits : \E j \in Copies : j < i
    /\ \A i \in ScpExits :
         (pcD \in {"destroy", "destroyWait"} /\ \A j \in HandlerExits : j <= i)
           => events[i].msg = (IF dErr.kind = "nil" THEN ExitStatusMsg(0)
                               ELSE ExitStatusMsg(1))
    /\ \A i \in ScpExits : events[i].msg.status \in {0, 1}
    /\ (ScpExits # {} /\ pcD = "idle") => complete

\* C13 witness: the copier reported an error for an scp command, exit-status
\* 1 was sent, teardown has run and no child was ever started.
C13_Witness ==
    /\ pcD = "idle"
    /\ complete
    /\ command.nil
    /\ \E i \in ScpExits : events[i].msg = ExitStatusMsg(1)

\* the signals delivered by the keepalive goroutine
KeepaliveSignals == {i \in DOMAIN signals : signals[i].by = "keepalive"}
\* the keepalive sends that failed
FailedSends == {i \in DOMAIN kaSends : ~kaSends[i].ok}

\* C14: the keepalive goroutine sends only keepalive@cloudfoundry.org
\* requests with want_reply and no exit notification; a failed send is
\* followed by one SIGHUP to the child and is the last thing it sends, so it
\* delivers at most one SIGHUP.
C14_Keepalive ==
    /\ \A i \in DOMAIN kaSends :
         /\ kaSends[i].msg.type = "keepalive@cloudfoundry.org"
         /\ kaSends[i].msg.want
    /\ \A i \in ExitNotes : events[i].by # "keepalive"
    /\ \A i \in KeepaliveSignals : signals[i].sig = SIGHUP
    /\ Cardinality(KeepaliveSignals) = Cardinality(FailedSends)
    /\ Cardinality(KeepaliveSignals) <= 1
    /\ \A i \in FailedSends : i = Len(kaSends) /\ pcK = "done"
    /\ KeepaliveSignals # {} => child # "none"

\* C14 witness: a keepalive send succeeded, the next one failed and SIGHUP
\* was delivered.
C14_Witness ==
    /\ Len(kaSends) = 2
    /\ kaSends[1].ok
    /\ ~kaSends[2].ok
    /\ KeepaliveSignals # {}

\* a step in which the dispatcher takes a signal request it can decode
SignalStep ==
    /\ pcD = "idle"
    /\ last'.type = "signal"
    /\ last'.ok
    /\ kaSends' = kaSends
    /\ (last' # last \/ signals' # signals)

\* C15: a signal request that can be decoded hands the translated signal to
\* the runner if a child was started for the session and hands over nothing
\* if none was (before a launch, after a launch that failed, on the SCP
\* path); it is answered positively if it wants a reply.
C15_SignalDelivery ==
    [][SignalStep =>
         /\ IF child # "none"
            THEN \E n \in SigNames :
                   signals' = Append(signals, [sig |-> SigNumber[n],
                                               by |-> "signal"])
            ELSE signals' = signals
         /\ last'.want => last'.reply = "true"]_vars

\* a step in which the dispatcher takes a window-change request it can
\* decode
WindowChangeStep ==
    /\ pcD = "idle"
    /\ last'.type = "window-change"
    /\ last'.ok
    /\ (last' # last \/ ptyRequest' # ptyRequest \/ winsize' # winsize)

\* C16 as stated: every window-change request that can be decoded sets the
\* columns and rows of ptyRequest to the requested values, issues the ioctl
\* exactly when the session holds an open PTY master, and is answered
\* positively if it wants a reply, also when the ioctl failed.
C16_WindowChangeAlwaysStored ==
    [][WindowChangeStep =>
         /\ \E sz \in WindowSizes :
              ptyRequest'.Columns = sz[1] /\ ptyRequest'.Rows = sz[2]
         /\ last'.ioctl # "none" <=> ptyMaster = "open"
         /\ last'.want => last'.reply = "true"]_vars

\* C16 amended: the columns and rows are stored when a pty-req has been
\* accepted before (allocPty) and ptyRequest is left as it is otherwise; the
\* ioctl is issued exactly when the session holds an open PTY master, never
\* on one that destroy has closed, and the reply is positive also when the
\* ioctl failed.
C16_WindowChange ==
    [][WindowChangeStep =>
         /\ IF allocPty
            THEN \E sz \in WindowSizes :
                   ptyRequest' = [ptyRequest EXCEPT !.Columns = sz[1],
                                                    !.Rows = sz[2]]
            ELSE ptyRequest' = ptyRequest
         /\ last'.ioctl # "none" <=> ptyMaster = "open"
         /\ last'.ioctl = "ok" =>
              /\ winsize'.Width = Uint16(ptyRequest'.Columns)
              /\ winsize'.Height = Uint16(ptyRequest'.Rows)
         /\ last'.want => last'.reply = "true"]_vars

\* C16 witness: with an open PTY master a window-change to 132 columns was
\* stored, its ioctl failed and the reply was positive.
C16_Witness ==
    /\ ptyMaster = "open"
    /\ last.type = "window-change"
    /\ last.ioctl = "failed"
    /\ last.reply = "true"
    /\ ptyRequest.Columns = 132

\* the one communication_timeout member of the inputs that is a duration
GoodTimeout == Member("communication_timeout", "string", <<"5", "s">>)

\* C17: NewSSHProxyConfig returns an error and the zero configuration when
\* the file does not exist, when its content is no JSON object or when a
\* communication_timeout in it is no duration; an error always comes with
\* the zero configuration, and without an error the file was opened and the
\* configuration returned is the one decoded from it.
C17_ConfigErrors ==
    cfg.pc = "done" =>
      LET exists == cfg.configPath \in FileNames(cfg.files)
          c == FileContent(cfg.files, "ssh-proxy-config")
          failed == cfg.err # "nil" /\ cfg.result = ZeroSSHProxyConfig
      IN
      /\ ~exists => failed
      /\ (exists /\ (c = <<>> \/ \A i \in DOMAIN c : c[i] # RBrace)) => failed
      /\ (exists /\ Len(c) > 1 /\ c[2] = LBrace) => failed
      /\ (exists /\ \E i \in DOMAIN c :
                      /\ c[i].k = "communication_timeout"
                      /\ c[i] # GoodTimeout) => failed
      /\ cfg.err # "nil" => cfg.result = ZeroSSHProxyConfig
      /\ cfg.err = "nil" =>
           /\ exists
           /\ cfg.result = cfg.proxyConfig
           /\ cfg.result.CommunicationTimeout \in {0, 5000}
           /\ cfg.result.Address \in {<<>>, <<"1.1.1.1">>}

\* C17 witness: the address of the file was decoded, its
\* communication_timeout is a number, and the call returned an error with
\* the zero configuration.
C17_Witness ==
    /\ cfg.pc = "done"
    /\ cfg.err = "invalid duration"
    /\ cfg.proxyConfig.Address = <<"1.1.1.1">>
    /\ cfg.result = ZeroSSHProxyConfig

\* what the step has appended to events
NewEvents == [i \in 1..(Len(events') - Len(events)) |->
                events'[Len(events) + i].e]

\* C18: the step of teardown that closes the channel is taken only when no
\* pump counted in the wait group is left, and it sets complete, closes the
\* channel, closes the PTY master if one is held and closes the keepalive
\* stop channel if there is one, in this order.
C18_DrainBeforeClose ==
    [][Count("close")' > Count("close") =>
         /\ wg = 0
         /\ ~complete
         /\ complete'
         /\ NewEvents =
              <<"complete", "close">>
                \o (IF ptyMaster # "nil" THEN <<"ptyclose">> ELSE <<>>)
                \o (IF keepaliveStopCh # "nil" THEN <<"stopclose">>
                    ELSE <<>>)]_vars

\* C18 witness: a child was started on a PTY with its pumps, and the
\* waiter's teardown has closed the channel, the PTY master and the
\* keepalive stop channel.
C18_Witness ==
    /\ allocPty
    /\ Count("start") = 1
    /\ pcW = "done"
    /\ \E i \in DOMAIN events : events[i].e = "close" /\ events[i].by = "waiter"
    /\ Count("ptyclose") = 1
    /\ Count("stopclose") = 1

\* C19: no task holds the session mutex while it is blocked: in particular
\* none holds it while it waits for the pumps to drain.
C19_MutexNotHeldWhileBlocked ==
    \A t \in Tasks : ~(mutex = t /\ Pc(t) = "destroyWait" /\ wg > 0)

\* C20: once the waiter goroutine of a started child has finished, the exit
\* notification has been sent and teardown is complete: complete is set,
\* the channel is closed and no PTY master is left open.
C20_TeardownCompletes ==
    pcW = "done" =>
      /\ child = "exited"
      /\ WaiterExits # {}
      /\ complete
      /\ Count("close") >= 1
      /\ ptyMaster = "nil"

\* C21: a keepalive goroutine that has returned sends nothing more, and a
\* keepalive goroutine that runs when teardown has completed returns in the
\* end.
C21_KeepaliveEnds ==
    /\ [][(pcK \in {"stopped", "done"})
             => (kaSends' = kaSends /\ pcK' = pcK)]_vars
    /\ (complete /\ pcK = "running") ~> (pcK \in {"stopped", "done"})

\* C21 witness: the keepalive sent a request, teardown closed the stop
\* channel and the keepalive returned on it.
C21_Witness ==
    /\ complete
    /\ keepaliveStopCh = "closed"
    /\ pcK = "stopped"
    /\ Len(kaSends) >= 1

\* the names a child finds in its environment vector
VectorNames(c) == {EntryName(c.Env[i]) : i \in DOMAIN c.Env}

\* C22: the environment map is per-session: an env or pty-req request on one
\* session of a handler never changes the vector given to the child of
\* another session of that handler, nor the handler's default environment
\* map from which later sessions are built.  With the first session sent
\* only FOO and TERM and the second only LC_ALL, each child's vector names
\* nothing the other session was sent, and the handler's map stays as it was
\* given to NewSessionChannelHandler.
C22_EnvPerSession ==
    /\ HandlerDefaultEnv = DefaultEnv
    /\ LANGx \notin VectorNames(command)
    /\ FOO \notin VectorNames(other.command)
    /\ TERM \notin VectorNames(other.command)

\* the child was started by runWithPty: the stop channel of the keepalive is
\* made there, once runner.Start has succeeded, and is never set back to nil
LaunchedWithPty == keepaliveStopCh # "nil"
\* the launch took the PTY path: a PTY was asked for and a command was built
PtyPath == allocPty /\ ~command.nil

C23_LatePtyReq ==
    /\ allocPty
    /\ child = "running"
    /\ ~LaunchedWithPty
    /\ ptyMaster = "nil"


\* the records of a modelist from offset i up to the first opcode that is 0
\* or at least 160, or the first record cut short
RECURSIVE RecordsBefore(_, _)
RecordsBefore(m, i) ==
    IF i + 1 > Len(m) \/ m[i + 1] = 0 \/ m[i + 1] >= 160 \/ i + 5 > Len(m)
    THEN <<>>
    ELSE <<[opcode |-> m[i + 1],
            value |-> BigEndian(SubSeq(m, i + 2, i + 5))]>>
           \o RecordsBefore(m, i + 5)
\* the records the iterations so far have handled
Handled == [k \in DOMAIN modes.did |->
              [opcode |-> modes.did[k].opcode, value |-> modes.did[k].value]]
IsPrefix(a, b) == Len(a) <= Len(b) /\ a = SubSeq(b, 1, Len(a))

\* the loop handles the records in order and nothing after the point where
\* the modelist ends, and every iteration moves the reader on or ends the loop
ModesInOrder ==
    /\ IsPrefix(Handled, RecordsBefore(modes.modelist, 0))
    /\ modes.pc = "done" => Handled = RecordsBefore(modes.modelist, 0)
    /\ modes.offset <= Len(modes.modelist)
ModesProgress ==
    [][modes'.offset > modes.offset \/ modes'.pc # "loop"]_vars
\* a record whose termios read or whose setter failed is followed by the
\* records after it
ModesFailuresSkipped ==
    \A k \in DOMAIN modes.did :
      modes.did[k].what \in {"get-failed", "set-failed"}
        => (modes.pc = "done" =>
              Len(modes.did) = Len(RecordsBefore(modes.modelist, 0)))

\* C24: for every modelist, terminal-mode parsing handles the 5-byte records
\* in order, stops at the first record whose opcode is 0 or at least 160 or
\* at the first short read and applies nothing after that point; a record
\* whose termios read or setter fails, or whose opcode in 1..159 has no
\* setter in the table, is skipped without aborting: no setter is run for an
\* opcode the table does not hold, and the call never ends in a panic.
C24_ModelistParsing ==
    /\ ModesInOrder
    /\ ModesFailuresSkipped
    /\ modes.pc # "panic"
    /\ \A k \in DOMAIN modes.did :
         modes.did[k].opcode \notin TermAttrSetters
           => modes.did[k].what \notin {"set", "set-zero", "panic"}


\* a step of session.destroy, taken by the dispatcher or by the waiter
TeardownStep ==
    \/ pcD \in {"destroy", "destroyWait"} /\ pcD' # pcD
    \/ pcW \in {"destroy", "destroyWait"} /\ pcW' # pcW
\* a step in which the keepalive's send fails
FailedKeepaliveStep ==
    /\ pcK = "running"
    /\ kaSends' = Append(kaSends, [msg |-> KeepaliveMsg, ok |-> FALSE])

\* C25: teardown never delivers a signal to the child and never waits for
\* it: a step of destroy leaves the signals delivered and the child as they
\* are, also when the child is running; every signal the session delivers is
\* the translated signal of a signal request or the SIGHUP that follows a
\* failed keepalive send.
C25_TeardownLeavesChild ==
    /\ [][TeardownStep => (signals' = signals /\ child' = child)]_vars
    /\ [][(signals' # signals) =>
            \/ /\ SignalStep
               /\ \E n \in SigNames :
                    signals' = Append(signals, [sig |-> SigNumber[n],
                                                by |-> "signal"])
            \/ /\ FailedKeepaliveStep
               /\ signals' = Append(signals, [sig |-> SigNumber["HUP"],
                                              by |-> "keepalive"])]_vars
\* teardown has run to its end while the child runs, and has sent it nothing
C25_Witness ==
    /\ complete
    /\ Count("close") > 0
    /\ child = "running"
    /\ signals = <<>>


====
